---------------------------- MODULE Spec2Model ----------------------------
(***************************************************************************)
(* Model of convodynamics' ConversationDynamicsTransformer: the metric     *)
(* registry, the noise-speaker filter, the six metrics and the batch       *)
(* transform over a corpus.                                                *)
(*                                                                         *)
(* Representation.                                                         *)
(*  - A Python str is a sequence of one-character strings.                 *)
(*  - Times are integers in deciseconds (1.0 s = 10).                      *)
(*  - A pandas DataFrame is [cols, rows]: the set of column names and the  *)
(*    sequence of rows, each row a function from cols to values.           *)
(*  - An optional value (None / NaN) is <<>>, a present one <<v>>.         *)
(*  - A result number is <<"rat", n, d>> (reduced fraction) or an          *)
(*    uninterpreted statistic <<"sym", f, args>>.                          *)
(***************************************************************************)
EXTENDS Integers, Sequences, FiniteSets, TLC

VARIABLES
    metrics,     \* self.metrics: <<>> before register_metrics, else <<list>>
    corpus,      \* the conversations' metadata stores, in iteration order
    raised,      \* the exception the last call surfaced to its caller
    phase,       \* "setup" until transform has been called, then "transformed"
    calls,       \* log of the metric invocations made by transform
    lastNames,   \* the argument of the last register_metrics call
    replaced,    \* self.metrics as the last register_metrics call found it
    extractor,   \* the attributes of the FeatureExtractor and what extract returned
    corpus0      \* the corpus as it was handed to the transformer

vars == <<metrics, corpus, raised, phase, calls, lastNames, replaced, extractor, corpus0>>

---------------------------------------------------------------------------
(* Python str operations *)

Uppers == <<"A","B","C","D","E","F","G","H","I","J","K","L","M",
            "N","O","P","Q","R","S","T","U","V","W","X","Y","Z">>

Lowers == <<"a","b","c","d","e","f","g","h","i","j","k","l","m",
            "n","o","p","q","r","s","t","u","v","w","x","y","z">>

Whitespace == {" ", "\t", "\n"}

\* Code-point order of the characters the model uses.
Alphabet == <<"\t", "\n", " ">> \o Uppers \o <<"_">> \o Lowers

CharIndex(seq, c) == CHOOSE i \in 1..Len(seq) : seq[i] = c

LowerChar(c) ==
    IF \E i \in 1..Len(Uppers) : Uppers[i] = c
    THEN Lowers[CharIndex(Uppers, c)]
    ELSE c

UpperChar(c) ==
    IF \E i \in 1..Len(Lowers) : Lowers[i] = c
    THEN Uppers[CharIndex(Lowers, c)]
    ELSE c

\* str.lower()
StrLower(s) == [i \in 1..Len(s) |-> LowerChar(s[i])]

\* str.upper()
StrUpper(s) == [i \in 1..Len(s) |-> UpperChar(s[i])]

\* str.strip(): drop leading and trailing whitespace
StrStrip(s) ==
    LET keep == {i \in 1..Len(s) : s[i] \notin Whitespace}
    IN  IF keep = {} THEN <<>>
        ELSE LET lo == CHOOSE i \in keep : \A j \in keep : i <= j
                 hi == CHOOSE i \in keep : \A j \in keep : j <= i
             IN  SubSeq(s, lo, hi)

\* s < t in Python's str order
StrLess(s, t) ==
    \E k \in 1..(Len(t)) :
        /\ \A j \in 1..(k-1) : j <= Len(s) /\ s[j] = t[j]
        /\ \/ Len(s) = k - 1
           \/ Len(s) >= k /\ CharIndex(Alphabet, s[k]) < CharIndex(Alphabet, t[k])

---------------------------------------------------------------------------
(* The metric registry *)

\* The spelling of each metric name.
Chars ==
    [ speaking_time |-> <<"s","p","e","a","k","i","n","g","_","t","i","m","e">>,
      turn_length   |-> <<"t","u","r","n","_","l","e","n","g","t","h">>,
      pauses        |-> <<"p","a","u","s","e","s">>,
      speaker_rate  |-> <<"s","p","e","a","k","e","r","_","r","a","t","e">>,
      backchannels  |-> <<"b","a","c","k","c","h","a","n","n","e","l","s">>,
      response_time |-> <<"r","e","s","p","o","n","s","e","_","t","i","m","e">> ]

\* list(_METRICS_REGISTRY.keys()), in insertion order
RegistryKeys ==
    << Chars.speaking_time, Chars.turn_length, Chars.pauses,
       Chars.speaker_rate, Chars.backchannels, Chars.response_time >>

\* The metric class a key maps to; an instance is identified by its _name.
MetricOfKey(key) == CHOOSE m \in DOMAIN Chars : Chars[m] = key

\* key in _METRICS_REGISTRY
InRegistry(key) == \E i \in 1..Len(RegistryKeys) : RegistryKeys[i] = key

\* metric_name.lower().strip()
NormalizeName_NoStrip(name) == StrLower(name)

NormalizeName(name) == StrStrip(StrLower(name))

NoException == <<>>

ValueError(name) ==
    << [type |-> "ValueError", name |-> name, available |-> RegistryKeys] >>

\* A loop that leaves no metric registered when it raises
RECURSIVE RegisterLoop_AllOrNothing(_, _)
RegisterLoop_AllOrNothing(names, acc) ==
    IF names = <<>> THEN [metrics |-> acc, raised |-> NoException]
    ELSE IF InRegistry(NormalizeName(Head(names)))
    THEN RegisterLoop_AllOrNothing(Tail(names),
                                   Append(acc, MetricOfKey(NormalizeName(Head(names)))))
    ELSE [metrics |-> <<>>, raised |-> ValueError(NormalizeName(Head(names)))]

\* The loop of register_metrics: the list built so far and the exception, if
\* the loop left by raising.
RECURSIVE RegisterLoop(_, _)
RegisterLoop(names, acc) ==
    IF names = <<>> THEN [metrics |-> acc, raised |-> NoException]
    ELSE LET metric_name == NormalizeName(Head(names))
         IN  IF InRegistry(metric_name)
             THEN RegisterLoop(Tail(names), Append(acc, MetricOfKey(metric_name)))
             ELSE [metrics |-> acc, raised |-> ValueError(metric_name)]

\* ConversationDynamicsTransformer.register_metrics(names)
RegisterMetrics(names) ==
    /\ LET r == RegisterLoop(names, <<>>)
       IN  /\ metrics' = <<r.metrics>>
           /\ raised' = r.raised
    /\ lastNames' = <<names>>
    /\ replaced' = metrics
    /\ UNCHANGED <<corpus, phase, calls, extractor, corpus0>>


---------------------------------------------------------------------------
(* Numbers *)

Abs(x) == IF x < 0 THEN -x ELSE x

RECURSIVE Gcd(_, _)
Gcd(a, b) == IF b = 0 THEN a ELSE Gcd(b, a % b)

\* n / d in float arithmetic, kept exact: a reduced fraction, or the IEEE
\* result of a zero divisor.
Div(n, d) ==
    IF d = 0
    THEN IF n = 0 THEN <<"nan">> ELSE <<"inf", IF n < 0 THEN -1 ELSE 1>>
    ELSE LET g == Gcd(Abs(n), Abs(d))
             sgn == IF d < 0 THEN -1 ELSE 1
         IN  <<"rat", (sgn * n) \div g, (sgn * d) \div g>>

\* A statistic whose value is not computed here (std, autocorr, spearman):
\* the function's name applied to the data it reads.
Sym(f, args) == <<"sym", f, args>>

RECURSIVE SumSeq(_)
SumSeq(s) == IF s = <<>> THEN 0 ELSE Head(s) + SumSeq(Tail(s))

\* The values in increasing order
Sorted(s) == SortSeq(s, LAMBDA a, b : a < b)

\* Series.median() of integers
Median(s) ==
    IF Len(s) = 0 THEN <<"nan">>
    ELSE IF Len(s) % 2 = 1 THEN Div(Sorted(s)[(Len(s) + 1) \div 2], 1)
    ELSE Div(Sorted(s)[Len(s) \div 2] + Sorted(s)[Len(s) \div 2 + 1], 2)

\* Series.mean() of integers
Mean(s) == Div(SumSeq(s), Len(s))

---------------------------------------------------------------------------
(* pandas DataFrame *)

None == <<>>

Some(v) == <<v>>

\* pd.DataFrame(list of dicts): no rows gives a frame without columns
DataFrame(cols, rows) ==
    [cols |-> IF rows = <<>> THEN {} ELSE cols, rows |-> rows]

NRows(df) == Len(df.rows)

\* df[c] as the sequence of its values, in row order
Column(df, c) == [i \in 1..NRows(df) |-> df.rows[i][c]]

\* df[c] = vals, in place
WithColumn(df, c, vals) ==
    [cols |-> df.cols \cup {c},
     rows |-> [i \in 1..NRows(df) |-> (c :> vals[i]) @@ df.rows[i]]]

\* Series.unique(): the distinct values in order of first appearance
RECURSIVE Unique(_)
Unique(s) ==
    IF s = <<>> THEN <<>>
    ELSE <<Head(s)>> \o Unique(SelectSeq(Tail(s), LAMBDA x : x # Head(s)))

\* Series.nunique()
NUnique(s) == Cardinality({s[i] : i \in 1..Len(s)})

\* The group keys of groupby("speaker"): the distinct speakers, sorted as
\* pandas sorts them
GroupKeys(df) == SortSeq(Unique(Column(df, "speaker")), StrLess)

\* The rows of speaker s, in row order
RowsOf(df, s) == [cols |-> df.cols, rows |-> SelectSeq(df.rows, LAMBDA r : r.speaker = s)]

\* The values of column c in the rows of speaker s, in row order
GroupValues(df, c, s) == Column(RowsOf(df, s), c)

\* The present values of a sequence of optional values (NaN skipped)
RECURSIVE Present(_)
Present(s) ==
    IF s = <<>> THEN <<>> ELSE Head(s) \o Present(Tail(s))

\* df.sort_values(by="start").reset_index(drop=True); rows with equal start
\* keep their order
SortByStart(df) ==
    LET n == NRows(df)
        idx == SortSeq([i \in 1..n |-> i],
                       LAMBDA i, j : \/ df.rows[i].start < df.rows[j].start
                                     \/ /\ df.rows[i].start = df.rows[j].start
                                        /\ i < j)
    IN  [cols |-> df.cols, rows |-> [k \in 1..n |-> df.rows[idx[k]]]]


---------------------------------------------------------------------------
(* Feature._format_results *)

EmptyDict == <<>>

\* f"{s.lower().strip()}_{metric}": the two parts of the key
SpeakerKey(s, metric) == <<StrStrip(StrLower(s)), metric>>

\* A conversation-scoped key is the metric key alone
ConversationKey(metric) == <<metric>>

\* results.update(d) for a list of (key, value) items: later items win
RECURSIVE DictUpdate(_, _)
DictUpdate(results, items) ==
    IF items = <<>> THEN results
    ELSE DictUpdate((Head(items)[1] :> Head(items)[2]) @@ results, Tail(items))

\* scores.index.map(mapping); scores.to_dict(), for one metric: scores is the
\* Series as a list of (speaker, value) in index order
ScoreItems(metric, scores) ==
    [i \in 1..Len(scores) |-> <<SpeakerKey(scores[i][1], metric), scores[i][2]>>]

RECURSIVE FormatSpeakerMetrics(_, _)
FormatSpeakerMetrics(results, speaker_metrics) ==
    IF speaker_metrics = <<>> THEN results
    ELSE LET m == Head(speaker_metrics)
         IN  FormatSpeakerMetrics(DictUpdate(results, ScoreItems(m[1], m[2])),
                                  Tail(speaker_metrics))

\* speaker_metrics: list of (metric key, Series); conversation_metrics: list
\* of (metric key, value)
FormatResults(speaker_metrics, conversation_metrics) ==
    DictUpdate(FormatSpeakerMetrics(EmptyDict, speaker_metrics),
               [i \in 1..Len(conversation_metrics) |->
                   <<ConversationKey(conversation_metrics[i][1]),
                     conversation_metrics[i][2]>>])

---------------------------------------------------------------------------
(* The six metrics.  Each takes the frame it is called on and the keyword  *)
(* arguments of the call, and gives the outcome of the call: its status    *)
(* ("ok" or the exception type), the dict it returns and the frame as the  *)
(* call leaves it (the caller's object, mutated in place or not).          *)

Outcome(status, result, df) == [status |-> status, result |-> result, frame |-> df]

\* Series.fillna(0) of a (speaker, optional value) Series of means
RECURSIVE DropNa_FillZero(_)
DropNa_FillZero(scores) ==
    IF scores = <<>> THEN <<>>
    ELSE << <<Head(scores)[1],
              IF Head(scores)[2] = None THEN [sum |-> 0, n |-> 1] ELSE Head(scores)[2][1]>> >>
         \o DropNa_FillZero(Tail(scores))

\* Series.dropna() of a (speaker, optional value) Series
RECURSIVE DropNa(_)
DropNa(scores) ==
    IF scores = <<>> THEN <<>>
    ELSE (IF Head(scores)[2] = None THEN <<>>
          ELSE << <<Head(scores)[1], Head(scores)[2][1]>> >>) \o DropNa(Tail(scores))

\* groupby mean skipping NaN: None when the group has no present value
MeanSkipNa(vals) ==
    IF Present(vals) = <<>> THEN None
    ELSE Some([sum |-> SumSeq(Present(vals)), n |-> Len(Present(vals))])

\* Number of TRUE values: Series.sum() of a boolean column
CountTrue(flags) == Len(SelectSeq(flags, LAMBDA b : b))

\* std / mean of a group: not computed
Cv(values) == Sym("std/mean", values)

\* Series.median() of fractions: not computed
MedianRate(values) == Sym("median", values)

\* The aggregate a groupby column is reduced with, applied to one group
Aggregate(agg, values) ==
    CASE agg = "sum"         -> SumSeq(values)
      [] agg = "sum_bool"    -> CountTrue(values)
      [] agg = "median"      -> Median(values)
      [] agg = "mean"        -> Mean(values)
      [] agg = "mean_skipna" -> MeanSkipNa(values)
      [] agg = "cv"          -> Cv(values)
      [] agg = "median_rate" -> MedianRate(values)

\* The Series of one aggregate per group key: (speaker, aggregate of values)
AggregateGroups(ks, df, c, agg) ==
    [i \in 1..Len(ks) |-> <<ks[i], Aggregate(agg, GroupValues(df, c, ks[i]))>>]

\* A per-speaker Series of groupby("speaker")[c].agg
GroupAgg(df, c, agg) == AggregateGroups(GroupKeys(df), df, c, agg)

\* sums * num / den: arithmetic on a Series of integers, the index kept
TimesOver(sums, num, den) ==
    [i \in 1..Len(sums) |-> <<sums[i][1], Div(sums[i][2] * num, den)>>]

\* means * num / den, each mean held as its sum and count
MeanTimesOver(means, num, den) ==
    [i \in 1..Len(means) |-> <<means[i][1], Div(means[i][2].sum * num, means[i][2].n * den)>>]

\* The distance between the starts of a row and the next
Gaps_FromStart(df) ==
    [i \in 1..NRows(df) |->
        IF i < NRows(df) THEN Some(df.rows[i + 1].start - df.rows[i].start) ELSE None]

\* start.shift(-1) - end: the gap to the next row, NaN in the last row
Gaps(df) ==
    [i \in 1..NRows(df) |->
        IF i < NRows(df) THEN Some(df.rows[i + 1].start - df.rows[i]["end"]) ELSE None]

\* SpeakingTime.extract(conversation, total_duration)
SpeakingTimeExtract(df, kwargs) ==
    IF DOMAIN kwargs # {"total_duration"} THEN Outcome("TypeError", EmptyDict, df)
    ELSE IF ~({"speaker", "duration"} \subseteq df.cols) THEN Outcome("KeyError", EmptyDict, df)
    ELSE Outcome("ok",
           FormatResults(
             << <<"speaking_time",
                  TimesOver(GroupAgg(df, "duration", "sum"), 100, kwargs.total_duration)>> >>,
             <<>>),
           df)

\* predictability(speaker_a), predictability(speaker_b) as a Series indexed
\* by the first two speakers
Predictability(df, c, speakers) ==
    << <<speakers[1], Sym("autocorr_lag1", GroupValues(df, c, speakers[1]))>>,
       <<speakers[2], Sym("autocorr_lag1", GroupValues(df, c, speakers[2]))>> >>

\* adaptability(speaker_a, speaker_b)
Adaptability(df, c, speakers) ==
    Sym("spearman", <<GroupValues(df, c, speakers[1]), GroupValues(df, c, speakers[2])>>)

\* The speaker_metrics dict of TurnLength
TurnLengthSpeakerMetrics(ks, df, speakers) ==
    << <<"turn_length_median", AggregateGroups(ks, df, "duration", "median")>>,
       <<"turn_length_mean", AggregateGroups(ks, df, "duration", "mean")>>,
       <<"turn_length_cv", AggregateGroups(ks, df, "duration", "cv")>>,
       <<"turn_length_predictability", Predictability(df, "duration", speakers)>> >>

\* TurnLength.extract(conversation, **kwargs)
TurnLengthExtract(df, kwargs) ==
    IF ~({"speaker", "duration"} \subseteq df.cols) THEN Outcome("KeyError", EmptyDict, df)
    ELSE IF Len(Unique(Column(df, "speaker"))) < 2 THEN Outcome("IndexError", EmptyDict, df)
    ELSE Outcome("ok",
           FormatResults(
             TurnLengthSpeakerMetrics(GroupKeys(df), df, Unique(Column(df, "speaker"))),
             << <<"turn_length_adaptability",
                  Adaptability(df, "duration", Unique(Column(df, "speaker")))>> >>),
           df)

\* The Series of Pauses: per speaker of the current row, the mean gap scaled
\* by 100 / total_duration
PauseScores(df, total_duration) ==
    MeanTimesOver(DropNa(GroupAgg(df, "pause", "mean_skipna")), 100, total_duration)

\* conversation['pause'] = conversation['start'].shift(-1) - conversation['end']
WithPause(df) == WithColumn(df, "pause", Gaps(df))

\* Pauses that leaves out the rows an earlier Backchannels run has flagged
PausesExtract_SkipFlagged(df, kwargs) ==
    IF DOMAIN kwargs # {"total_duration"} THEN Outcome("TypeError", EmptyDict, df)
    ELSE IF ~({"start", "end"} \subseteq df.cols) THEN Outcome("KeyError", EmptyDict, df)
    ELSE IF "speaker" \notin df.cols THEN Outcome("KeyError", EmptyDict, WithPause(df))
    ELSE Outcome("ok",
           FormatResults(
             << <<"avg_pause_pct",
                  PauseScores(
                      [cols |-> df.cols \cup {"pause"},
                       rows |-> SelectSeq(WithPause(df).rows,
                                   LAMBDA r : ~("backchannel" \in df.cols /\ r.backchannel))],
                      kwargs.total_duration)>> >>,
             <<>>),
           WithPause(df))

\* Pauses.extract(conversation, total_duration)
PausesExtract(df, kwargs) ==
    IF DOMAIN kwargs # {"total_duration"} THEN Outcome("TypeError", EmptyDict, df)
    ELSE IF ~({"start", "end"} \subseteq df.cols) THEN Outcome("KeyError", EmptyDict, df)
    ELSE IF "speaker" \notin df.cols THEN Outcome("KeyError", EmptyDict, WithPause(df))
    ELSE Outcome("ok",
           FormatResults(
             << <<"avg_pause_pct", PauseScores(WithPause(df), kwargs.total_duration)>> >>,
             <<>>),
           WithPause(df))


\* The longest duration of a backchannel: 1.0 second
BackchannelMaxDuration == 10

\* Backchannels.is_backchannel(current_segment, segments): segments is the
\* whole frame, the current row included
IsBackchannel(current_segment, segments) ==
    \E j \in 1..Len(segments) :
        /\ segments[j].start <= current_segment.start
        /\ segments[j]["end"] >= current_segment["end"]
        /\ current_segment["end"] - current_segment.start <= BackchannelMaxDuration

\* groupby("speaker").size() at speaker s
Turns(df, s) == NRows(RowsOf(df, s))

\* The counts of the first two speakers, each times 100 over the speaker's
\* own number of turns
RescaleFirstTwo_OwnTurns(backchannels, df, speakers) ==
    [i \in 1..Len(backchannels) |->
        <<backchannels[i][1],
          IF backchannels[i][1] = speakers[1]
          THEN Div(backchannels[i][2] * 100, Turns(df, speakers[1]))
          ELSE IF backchannels[i][1] = speakers[2]
          THEN Div(backchannels[i][2] * 100, Turns(df, speakers[2]))
          ELSE Div(backchannels[i][2], 1)>>]

\* The two .loc assignments: the counts of the first two speakers, each
\* times 100 over the other's number of turns
RescaleFirstTwo(backchannels, df, speakers) ==
    [i \in 1..Len(backchannels) |->
        <<backchannels[i][1],
          IF backchannels[i][1] = speakers[1]
          THEN Div(backchannels[i][2] * 100, Turns(df, speakers[2]))
          ELSE IF backchannels[i][1] = speakers[2]
          THEN Div(backchannels[i][2] * 100, Turns(df, speakers[1]))
          ELSE Div(backchannels[i][2], 1)>>]

\* The Series of Backchannels: the per-speaker counts, with the entries of
\* the first two speakers rescaled
BackchannelScores(df) ==
    RescaleFirstTwo(GroupAgg(df, "backchannel", "sum_bool"), df, Unique(Column(df, "speaker")))

\* conversation['backchannel'] = conversation.apply(self.is_backchannel, ...)
WithBackchannel(df) ==
    WithColumn(df, "backchannel", [i \in 1..NRows(df) |-> IsBackchannel(df.rows[i], df.rows)])

\* Backchannels.extract(conversation, **kwargs)
BackchannelsExtract(df, kwargs) ==
    IF ~({"start", "end"} \subseteq df.cols) THEN Outcome("KeyError", EmptyDict, df)
    ELSE IF "speaker" \notin df.cols THEN Outcome("KeyError", EmptyDict, WithBackchannel(df))
    ELSE IF NUnique(Column(df, "speaker")) < 2
    THEN Outcome("IndexError", EmptyDict, WithBackchannel(df))
    ELSE Outcome("ok",
           FormatResults(<< <<"backchannels", BackchannelScores(WithBackchannel(df))>> >>, <<>>),
           WithBackchannel(df))

\* The Series of ResponseTime: the mean gap per speaker, in time units
ResponseScores(sorted) ==
    MeanTimesOver(DropNa(GroupAgg(WithColumn(sorted, "response_time", Gaps(sorted)),
                                  "response_time", "mean_skipna")),
                  1, 1)

\* ResponseTime.extract(conversation, **kwargs): works on a sorted copy
ResponseTimeExtract(df, kwargs) ==
    IF "start" \notin df.cols THEN Outcome("KeyError", EmptyDict, df)
    ELSE IF ~({"end", "speaker"} \subseteq df.cols) THEN Outcome("KeyError", EmptyDict, df)
    ELSE Outcome("ok",
           FormatResults(<< <<"avg_response_time", ResponseScores(SortByStart(df))>> >>, <<>>),
           df)

\* len(x.split(' '))
NWords(text) == Len(SelectSeq(text, LAMBDA c : c = " ")) + 1

\* conversation["speechrate"] = n_words * 60 / delta
WithSpeechRate(df, text_field) ==
    WithColumn(df, "speechrate",
               [i \in 1..NRows(df) |->
                   Div(NWords(df.rows[i][text_field]) * 60, df.rows[i].delta)])

\* The speaker_metrics dict of SpeakerRate
SpeakerRateSpeakerMetrics(ks, df, speakers) ==
    << <<"speaker_rate_median", AggregateGroups(ks, df, "speechrate", "median_rate")>>,
       <<"speaker_rate_cv", AggregateGroups(ks, df, "speechrate", "cv")>>,
       <<"speaker_rate_predictability", Predictability(df, "speechrate", speakers)>> >>

\* SpeakerRate.extract(conversation, text_field)
SpeakerRateExtract(df, kwargs) ==
    IF DOMAIN kwargs # {"text_field"} THEN Outcome("TypeError", EmptyDict, df)
    ELSE IF ~({kwargs.text_field, "delta"} \subseteq df.cols) THEN Outcome("KeyError", EmptyDict, df)
    ELSE IF "speaker" \notin df.cols
    THEN Outcome("KeyError", EmptyDict, WithSpeechRate(df, kwargs.text_field))
    ELSE IF Len(Unique(Column(df, "speaker"))) < 2
    THEN Outcome("IndexError", EmptyDict, WithSpeechRate(df, kwargs.text_field))
    ELSE Outcome("ok",
           FormatResults(
             SpeakerRateSpeakerMetrics(GroupKeys(df), WithSpeechRate(df, kwargs.text_field),
                                       Unique(Column(df, "speaker"))),
             << <<"speaker_rate_adaptability",
                  Adaptability(WithSpeechRate(df, kwargs.text_field), "speechrate",
                               Unique(Column(df, "speaker")))>> >>),
           WithSpeechRate(df, kwargs.text_field))

\* Feature.__call__(conversation, **kwargs) of the instance named `metric`
Call(metric, df, kwargs) ==
    CASE metric = "speaking_time" -> SpeakingTimeExtract(df, kwargs)
      [] metric = "turn_length"   -> TurnLengthExtract(df, kwargs)
      [] metric = "pauses"        -> PausesExtract(df, kwargs)
      [] metric = "speaker_rate"  -> SpeakerRateExtract(df, kwargs)
      [] metric = "backchannels"  -> BackchannelsExtract(df, kwargs)
      [] metric = "response_time" -> ResponseTimeExtract(df, kwargs)


---------------------------------------------------------------------------
(* ConversationDynamicsTransformer.transform *)

\* The index of the first entry with the largest value
IdxMax(scores) ==
    scores[CHOOSE i \in 1..Len(scores) :
              /\ \A j \in 1..Len(scores) : scores[i][2] >= scores[j][2]
              /\ \A j \in 1..(i - 1) : scores[j][2] < scores[i][2]][1]

\* Series.idxmin(): the index of the first entry with the smallest value
IdxMin(scores) ==
    scores[CHOOSE i \in 1..Len(scores) :
              /\ \A j \in 1..Len(scores) : scores[i][2] <= scores[j][2]
              /\ \A j \in 1..(i - 1) : scores[j][2] > scores[i][2]][1]

\* groupby("speaker")["duration"].sum().idxmin(): the first of the sorted
\* group keys with the smallest sum
ShortestSpeaker(segments) == IdxMin(GroupAgg(segments, "duration", "sum"))

\* The rows of the speakers other than s
WithoutSpeaker(segments, s) ==
    [cols |-> segments.cols, rows |-> SelectSeq(segments.rows, LAMBDA r : r.speaker # s)]

\* remove_shortest_speaker(segments): a new frame without that speaker's rows
RemoveShortestSpeaker(segments) == WithoutSpeaker(segments, ShortestSpeaker(segments))

\* One entry of the log of metric invocations
CallEntry(conv, source, metric, df, kwargs, out) ==
    [conv |-> conv, source |-> source, metric |-> metric, frame |-> df,
     kwargs |-> DOMAIN kwargs, status |-> out.status, result |-> out.result,
     after |-> out.frame]

\* The loop over self.metrics for one conversation: each metric is called on
\* the same frame object; the first exception leaves the loop.
RECURSIVE MetricsLoop(_, _, _, _, _, _, _)
MetricsLoop(todo, df, kwargs, conv, source, features, log) ==
    IF todo = <<>>
    THEN [status |-> "ok", frame |-> df, features |-> features, log |-> log]
    ELSE LET metric_name == Head(todo)
             Logged(out) == Append(log, CallEntry(conv, source, metric_name, df, kwargs, out))
             After(out) ==
                 IF out.status # "ok"
                 THEN [status |-> out.status, frame |-> out.frame,
                       features |-> features, log |-> Logged(out)]
                 ELSE MetricsLoop(Tail(todo), out.frame, kwargs, conv, source,
                                  (metric_name :> out.result) @@ features, Logged(out))
         IN  After(Call(metric_name, df, kwargs))

\* conversation.get_utterances_dataframe(exclude_meta=True): a frame built
\* anew from the utterances at each call
GetUtterancesDataframe(conversation) == conversation.utterances

NoKwargs == <<>>

\* The timeline source of the conversation
ChosenSource_Truthy(conversation) ==
    IF conversation.segments # None /\ NRows(conversation.segments[1]) > 0
    THEN "diarization_segments" ELSE "utterances"

ChosenSource(conversation) ==
    IF conversation.segments # None THEN "diarization_segments" ELSE "utterances"

\* The body of transform's loop for the conversation at position ci: the
\* status it ends with, the conversation's metadata as it leaves it and the
\* metric invocations it made.
ProcessConversation(ci, conversation, registered) ==
    LET source == ChosenSource(conversation)
        diarized == source = "diarization_segments"
        stored == conversation.segments[1]
        filter == NUnique(Column(stored, "speaker")) > 2
        unchanged(status) == [status |-> status, conversation |-> conversation, log |-> <<>>]
        \* without the filter, the metrics ran on the stored object itself
        Finish(r) ==
            [status |-> r.status,
             conversation |->
                 [conversation EXCEPT
                     !.segments = IF diarized /\ ~filter THEN Some(r.frame) ELSE @,
                     !.features = IF r.status = "ok" THEN Some(r.features) ELSE @],
             log |-> r.log]
    IN  IF diarized /\ "speaker" \notin stored.cols THEN unchanged("KeyError")
        ELSE IF registered = None THEN unchanged("AttributeError")
        ELSE Finish(MetricsLoop(
                 registered[1],
                 IF ~diarized THEN GetUtterancesDataframe(conversation)
                 ELSE IF filter THEN RemoveShortestSpeaker(stored) ELSE stored,
                 IF diarized THEN [total_duration |-> conversation.total_duration[1]]
                 ELSE NoKwargs,
                 ci, source, EmptyDict, <<>>))

\* The loop over corpus.iter_conversations(), from position ci on: an
\* exception in one conversation propagates out of transform.
RECURSIVE TransformLoop(_, _, _, _)
TransformLoop(ci, convs, registered, log) ==
    IF ci > Len(convs) THEN [status |-> "ok", corpus |-> convs, log |-> log]
    ELSE LET Advance(r) ==
                 IF r.status # "ok"
                 THEN [status |-> r.status,
                       corpus |-> [convs EXCEPT ![ci] = r.conversation],
                       log |-> log \o r.log]
                 ELSE TransformLoop(ci + 1, [convs EXCEPT ![ci] = r.conversation],
                                    registered, log \o r.log)
         IN  Advance(ProcessConversation(ci, convs[ci], registered))

Exception(type) == << [type |-> type] >>

\* ConversationDynamicsTransformer.transform(corpus)
Transform ==
    /\ LET Return(r) ==
               /\ corpus' = r.corpus
               /\ calls' = r.log
               /\ raised' = IF r.status = "ok" THEN NoException ELSE Exception(r.status)
       IN  Return(TransformLoop(1, corpus, metrics, <<>>))
    /\ phase' = "transformed"
    /\ UNCHANGED <<metrics, lastNames, replaced, extractor, corpus0>>

---------------------------------------------------------------------------
(* FeatureExtractor *)

\* FeatureExtractor(conversation_path): no metrics, segments or
\* total_duration attribute yet, and nothing returned
NewExtractor ==
    [metrics |-> None, segments |-> None, total_duration |-> None, returned |-> None]

\* FeatureExtractor.register_metrics(metrics): the list of instances is kept
\* as it is given
ExtractorRegisterMetrics(instances) ==
    /\ extractor' = [extractor EXCEPT !.metrics = Some(instances)]
    /\ UNCHANGED <<metrics, corpus, raised, phase, calls, lastNames, replaced, corpus0>>

\* if self.segments['speaker'].nunique() > 2:
\*     self.segments = remove_shortest_speaker(self.segments)
RemoveNoise(segments) ==
    IF NUnique(Column(segments, "speaker")) > 2
    THEN RemoveShortestSpeaker(segments) ELSE segments

\* The loop of extract over self.metrics: segments is self.segments (the
\* diarization of the audio when the attribute is not set yet) and loaded
\* tells whether the attribute is set; speaker_rate is passed over.
RECURSIVE ExtractLoop(_, _, _, _, _, _)
ExtractLoop(todo, segments, loaded, total_duration, features, log) ==
    IF todo = <<>>
    THEN [status |-> "ok", segments |-> segments, loaded |-> loaded,
          features |-> features, log |-> log]
    ELSE IF Head(todo) = "speaker_rate"
    THEN ExtractLoop(Tail(todo), segments, loaded, total_duration, features, log)
    ELSE IF "speaker" \notin segments.cols
    THEN [status |-> "KeyError", segments |-> segments, loaded |-> TRUE,
          features |-> features, log |-> log]
    ELSE LET Logged(df, out) ==
                 Append(log, CallEntry(1, "diarize_audio", Head(todo), df,
                                       [total_duration |-> total_duration], out))
             After(df, out) ==
                 IF out.status # "ok"
                 THEN [status |-> out.status, segments |-> out.frame, loaded |-> TRUE,
                       features |-> features, log |-> Logged(df, out)]
                 ELSE ExtractLoop(Tail(todo), out.frame, TRUE, total_duration,
                                  (Head(todo) :> out.result) @@ features, Logged(df, out))
             CallOn(df) == After(df, Call(Head(todo), df, [total_duration |-> total_duration]))
         IN  CallOn(RemoveNoise(segments))

\* FeatureExtractor.extract(), where diarize_audio gives (audio,
\* audio_duration) for the conversation's recording
Extract(audio, audio_duration) ==
    /\ IF extractor.metrics = None
       THEN /\ raised' = Exception("AttributeError")
            /\ calls' = <<>>
            /\ extractor' = [extractor EXCEPT !.returned = None]
       ELSE LET Return(r) ==
                    /\ raised' = IF r.status = "ok" THEN NoException ELSE Exception(r.status)
                    /\ calls' = r.log
                    /\ extractor' =
                          [extractor EXCEPT
                              !.segments = IF r.loaded THEN Some(r.segments) ELSE @,
                              !.total_duration =
                                  IF r.loaded /\ @ = None THEN Some(audio_duration) ELSE @,
                              !.returned = IF r.status = "ok" THEN Some(r.features) ELSE None]
            IN  Return(ExtractLoop(
                    extractor.metrics[1],
                    IF extractor.segments = None THEN audio ELSE extractor.segments[1],
                    extractor.segments # None,
                    IF extractor.total_duration = None THEN audio_duration
                    ELSE extractor.total_duration[1],
                    EmptyDict, <<>>))
    /\ UNCHANGED <<metrics, corpus, phase, lastNames, replaced, corpus0>>

---------------------------------------------------------------------------
(* Inputs *)

\* Longest list handed to register_metrics
MaxMetrics == 2

\* Most rows of a diarized timeline
MaxRows == 4

\* Conversations of a batch
NumConvs == 2

\* Sequences over S of length at most n
SeqsUpTo(S, n) == UNION {[1..k -> S] : k \in 0..n}

A == <<"A">>

B == <<"B">>

C == <<"C">>

D == <<"D">>

\* The diarizer's speaker labels, in sorted order
SpeakerSeq == <<A, B, C, D>>

\* Diarized turns start one second apart and last 0.5 s or 2.5 s, so that
\* turns overlap, nest and leave gaps.
SlotLength == 10

ShortTurn == 5

LongTurn == 25

Durations == {ShortTurn, LongTurn}

\* The record _diarize_conversation builds for a turn
Segment(start, duration, speaker) ==
    [start |-> start, end |-> start + duration, speaker |-> speaker, duration |-> duration]

SegmentColumns == {"start", "end", "speaker", "duration"}

\* The frames of n turns in chronological order, the i-th turn taken by one
\* of the first i speakers
Timelines(n) ==
    {DataFrame(SegmentColumns,
               [i \in 1..n |-> Segment((i - 1) * SlotLength, t[i][1], SpeakerSeq[t[i][2]])]) :
        t \in {u \in [1..n -> Durations \X (1..Len(SpeakerSeq))] :
                 \A i \in 1..n : u[i][2] <= i}}

\* The frame of a turn-taking conversation of k speakers: n turns taken in
\* rotation, turns of the first duration alternating with the other
TurnTaking(k, n, first) ==
    DataFrame(SegmentColumns,
              [i \in 1..(IF k = 0 THEN 0 ELSE n) |->
                  Segment((i - 1) * SlotLength,
                          IF i % 2 = 1 THEN first ELSE ShortTurn + LongTurn - first,
                          SpeakerSeq[((i - 1) % k) + 1])])

TurnTakings ==
    {TurnTaking(k, n, first) : k \in 0..Len(SpeakerSeq), n \in 1..MaxRows, first \in Durations}

\* The audio's duration: num_frames / sample_rate
TotalDurations == {60}

UtteranceColumns == {"timestamp", "text", "speaker", "reply_to", "conversation_id", "vectors"}

Utterance(id, speaker, text) ==
    [timestamp |-> id * SlotLength, text |-> text, speaker |-> speaker,
     reply_to |-> IF id > 0 THEN Some(id - 1) ELSE None,
     conversation_id |-> "c", vectors |-> <<>>]

\* The utterance tables of the transcripts: every conversation has one
Transcripts ==
    { [cols |-> UtteranceColumns,
       rows |-> <<Utterance(0, A, <<"h","i">>), Utterance(1, B, <<"o","h"," ","h","i">>)>>] }

\* A conversation's metadata store and utterances before transform
Conversation(segments, total_duration, utterances) ==
    [segments |-> segments, total_duration |-> total_duration,
     utterances |-> utterances, features |-> None]

\* Conversations that went through SpeechDiarizationTransformer, and
\* conversations that did not
Conversations(frames) ==
    {Conversation(Some(f), Some(d), u) : f \in frames, d \in TotalDurations, u \in Transcripts}
    \cup {Conversation(None, None, u) : u \in Transcripts}

InitTransformer(corpora) ==
    /\ metrics = None
    /\ corpus \in corpora
    /\ corpus0 = corpus
    /\ raised = NoException
    /\ phase = "setup"
    /\ calls = <<>>
    /\ lastNames = None
    /\ replaced = None
    /\ extractor = NewExtractor

\* The canonical metric names, as interface.py passes them
MetricNames == {RegistryKeys[i] : i \in 1..Len(RegistryKeys)}

\* One conversation with any timeline of up to MaxRows turns
Init ==
    InitTransformer([1..1 -> Conversations(UNION {Timelines(n) : n \in 0..MaxRows})])

\* The script of interface.py: register_metrics is called at most once on
\* the new transformer, then transform is called once.
Next ==
    \/ /\ phase = "setup"
       /\ metrics = None
       /\ \E names \in SeqsUpTo(MetricNames, MaxMetrics) : RegisterMetrics(names)
    \/ /\ phase = "setup"
       /\ Transform

Spec == Init /\ [][Next]_vars

\* A batch of NumConvs conversations, each a turn-taking conversation of 0
\* to 4 diarized speakers or one without diarization
InitBatch ==
    InitTransformer([1..NumConvs ->
        Conversations({TurnTaking(k, MaxRows, LongTurn) : k \in 0..Len(SpeakerSeq)})])

\* One conversation, a turn-taking one of any length or one without
\* diarization
InitTurnTaking == InitTransformer([1..1 -> Conversations(TurnTakings)])

SpecTurnTaking == InitTurnTaking /\ [][Next]_vars

SpecBatch == InitBatch /\ [][Next]_vars

\* The orderings of a list
Orderings(s) ==
    {[i \in 1..Len(s) |-> s[p[i]]] :
        p \in {q \in [1..Len(s) -> 1..Len(s)] : \A i, j \in 1..Len(s) : q[i] = q[j] => i = j}}

\* Two speakers taking turns without overlap: A 0-2 s, B 2-3 s, A 3-3.4 s,
\* B 4-6 s
TurnsApart ==
    <<Segment(0, 20, A), Segment(20, 10, B), Segment(30, 4, A), Segment(40, 20, B)>>

\* Two speakers talking over each other: A 0-4 s, B 1-5 s
TurnsOverlapping == <<Segment(0, 40, A), Segment(10, 40, B)>>

\* Segment frames with the rows of a timeline in any row order
IntervalFrames ==
    {DataFrame(SegmentColumns, rows) :
        rows \in UNION {Orderings(t) : t \in {TurnsApart, TurnsOverlapping}}}

\* One diarized conversation over a 6 s recording whose segments frame
\* holds given intervals in some row order
InitIntervals ==
    InitTransformer([1..1 -> {Conversation(Some(f), Some(d), u) :
                                 f \in IntervalFrames, d \in TotalDurations, u \in Transcripts}])

SpecIntervals == InitIntervals /\ [][Next]_vars


\* Names as a caller may spell them: the registry's names and misspelt
\* ones, in lower, upper or capitalised case, bare or inside whitespace
Misspelt ==
    { <<"t","u","r","n","_","l","e","n","g","h","t">>,
      <<"p","a","u","s","e">>,
      <<"t","u","r","n"," ","l","e","n","g","t","h">> }

Capitalized(name) == <<UpperChar(Head(name))>> \o Tail(name)

Padded(name) == <<" ">> \o name \o <<"\t", " ">>

RawNames ==
    UNION {{b, Padded(b), Padded(StrUpper(b)), Capitalized(b)} : b \in MetricNames \cup Misspelt}

\* A new transformer on which register_metrics is called with any spellings
InitRegister == InitTransformer({<<>>})

NextRegister ==
    /\ metrics = None
    /\ \E names \in SeqsUpTo(RawNames, MaxMetrics) : RegisterMetrics(names)

SpecRegister == InitRegister /\ [][NextRegister]_vars

\* Names a caller registers again and again: two known ones and a misspelt one
RetriedNames ==
    {Chars.speaking_time, Padded(StrUpper(Chars.pauses)), <<"p","a","u","s","e">>}

\* A caller that catches the ValueError of register_metrics: it registers any
\* number of times, whatever the last call raised, and then calls transform.
NextRetry ==
    \/ /\ phase = "setup"
       /\ \E names \in SeqsUpTo(RetriedNames, MaxMetrics) : RegisterMetrics(names)
    \/ /\ phase = "setup"
       /\ Transform

\* One diarized conversation of two speakers
InitRetry ==
    InitTransformer([1..1 -> {Conversation(Some(DataFrame(SegmentColumns, t)), Some(d), u) :
                                 t \in {TurnsApart, TurnsOverlapping},
                                 d \in TotalDurations, u \in Transcripts}])

SpecRetry == InitRetry /\ [][NextRetry]_vars

\* The metric classes feature_extractor imports, each named by its _name
MetricClasses == DOMAIN Chars

\* The script of feature_extractor.main: metrics are registered once on a
\* new extractor; extract is called any number of times, and diarize_audio
\* gives a turn-taking timeline of 0 to 4 speakers.
NextExtract ==
    \/ /\ extractor.metrics = None
       /\ \E instances \in SeqsUpTo(MetricClasses, MaxMetrics) :
              ExtractorRegisterMetrics(instances)
    \/ \E audio \in TurnTakings, d \in TotalDurations : Extract(audio, d)

SpecExtract == InitRegister /\ [][NextExtract]_vars

---------------------------------------------------------------------------
(* Claims *)

Range(s) == {s[i] : i \in 1..Len(s)}

\* The metric invocations of the last transform
Invocations == Range(calls)

Transformed == phase = "transformed"

DistinctSpeakers(df) == {df.rows[i].speaker : i \in 1..NRows(df)}

\* C1: after the noise-speaker removal every diarized timeline handed to a
\* metric has exactly two distinct speakers (otherwise the conversation is
\* rejected before any metric runs).
C1_OnlyDyadsReachMetrics ==
    \A e \in Invocations :
        e.source = "diarization_segments" => Cardinality(DistinctSpeakers(e.frame)) = 2

\* c and k are the same letter, whatever the case of c
SameLetter(c, k) ==
    \/ c = k
    \/ \E i \in 1..Len(Lowers) : k = Lowers[i] /\ c = Uppers[i]

\* raw is key in some mix of cases, between runs of whitespace
MatchesKey(raw, key) ==
    \E lo \in 1..(Len(raw) + 1) :
        /\ lo + Len(key) - 1 <= Len(raw)
        /\ \A i \in 1..Len(raw) :
              IF i < lo \/ i >= lo + Len(key)
              THEN raw[i] \in Whitespace
              ELSE SameLetter(raw[i], key[i - lo + 1])

Resolvable(raw) == \E k \in 1..Len(RegistryKeys) : MatchesKey(raw, RegistryKeys[k])

\* C2: register_metrics resolves every name that equals a registered name up
\* to case and surrounding whitespace, in order; a call with any other name
\* raises a ValueError that lists the six registered names.
C2_RegisterResolvesOrRaises ==
    lastNames # None =>
        LET names == lastNames[1]
        IN  IF \A i \in 1..Len(names) : Resolvable(names[i])
            THEN /\ raised = NoException
                 /\ Len(metrics[1]) = Len(names)
                 /\ \A i \in 1..Len(names) : MatchesKey(names[i], Chars[metrics[1][i]])
            ELSE /\ raised # NoException
                 /\ raised[1].type = "ValueError"
                 /\ Len(raised[1].available) = 6
                 /\ Range(raised[1].available) = {Chars[m] : m \in DOMAIN Chars}
                 /\ ~Resolvable(raised[1].name)

\* C2 witness: " PAUSES\t " was resolved to pauses and "turn_lenght" raised
C2_Witness ==
    /\ lastNames = Some(<< <<" ">> \o StrUpper(Chars.pauses) \o <<"\t", " ">>,
                          <<"t","u","r","n","_","l","e","n","g","h","t">> >>)
    /\ metrics = Some(<<"pauses">>)
    /\ raised # NoException

\* Row i lies inside another row of the frame
NestedInOther(df, i) ==
    \E j \in 1..NRows(df) :
        /\ j # i
        /\ df.rows[j].start <= df.rows[i].start
        /\ df.rows[j]["end"] >= df.rows[i]["end"]

\* C3: a turn is flagged as a backchannel exactly when it lies inside
\* another turn and lasts at most one second.
C3_BackchannelIffNestedAndShort ==
    \A e \in Invocations :
        (e.metric = "backchannels" /\ "backchannel" \in e.after.cols) =>
            \A i \in 1..NRows(e.after) :
                e.after.rows[i].backchannel <=>
                    /\ NestedInOther(e.frame, i)
                    /\ e.frame.rows[i].duration <= BackchannelMaxDuration

\* The gaps next.start - current.end of a frame's adjacent rows that are
\* counted under speaker s, when a gap is counted under the speaker of the
\* current row (offset 0) or of the next row (offset 1)
GapsCountedUnder(df, s, offset) ==
    LET pairs == SelectSeq([i \in 1..(NRows(df) - 1) |-> i],
                           LAMBDA i : df.rows[i + offset].speaker = s)
    IN  [k \in 1..Len(pairs) |-> df.rows[pairs[k] + 1].start - df.rows[pairs[k]]["end"]]

\* The result dict that holds, for each speaker with at least one gap, the
\* mean of the speaker's gaps times scale / divisor
MeanGapDict(df, metric, offset, scale, divisor) ==
    LET with == {s \in DistinctSpeakers(df) : GapsCountedUnder(df, s, offset) # <<>>}
    IN  [k \in {SpeakerKey(s, metric) : s \in with} |->
            LET s == CHOOSE s \in with : SpeakerKey(s, metric) = k
                g == GapsCountedUnder(df, s, offset)
            IN  Div(SumSeq(g) * scale, Len(g) * divisor)]

\* C4: on a start-sorted timeline each gap next.start - current.end is
\* counted by Pauses under the current turn's speaker and by ResponseTime
\* under the next turn's speaker; ResponseTime reports the plain mean.
C4_GapUnderCurrentForPausesNextForResponse ==
    \A e \in Invocations :
        (e.status = "ok" /\ e.source = "diarization_segments") =>
            /\ e.metric = "pauses" =>
                 e.result = MeanGapDict(e.frame, "avg_pause_pct", 0, 100,
                                        corpus0[e.conv].total_duration[1])
            /\ e.metric = "response_time" =>
                 e.result = MeanGapDict(e.frame, "avg_response_time", 1, 1, 1)


\* The invocations transform made for the conversation at position c
InvocationsOf(c) == SelectSeq(calls, LAMBDA e : e.conv = c)

\* C5: a metric that fails on a conversation does not stop its siblings:
\* every registered metric is still invoked on that conversation, and the
\* conversation gets a feature record with the results of those that
\* succeeded.
C5_FailureConfinedToMetric ==
    Transformed =>
        \A e \in Invocations :
            (e.status # "ok" /\ Cardinality(Range(metrics[1])) > 1) =>
                /\ Len(InvocationsOf(e.conv)) = Len(metrics[1])
                /\ corpus[e.conv].features # None
                /\ \A o \in Invocations :
                      (o.conv = e.conv /\ o.status = "ok") =>
                          /\ o.metric \in DOMAIN corpus[e.conv].features[1]
                          /\ corpus[e.conv].features[1][o.metric] = o.result

\* Processing the conversation at position c on its own raises nothing
ProcessedAlone(c) == ProcessConversation(c, corpus0[c], metrics).status = "ok"

\* C6: in a batch, an error in one conversation leaves every conversation
\* that can be processed, before or after it, with its feature record.
C6_BatchContinuesAfterFailure ==
    Transformed =>
        \A c \in 1..Len(corpus) : ProcessedAlone(c) => corpus[c].features # None

\* C7: transform leaves each conversation's stored timeline, duration and
\* utterances as they were; only the feature record is added.
C7_TimelineUnchanged ==
    Transformed =>
        \A c \in 1..Len(corpus) :
            /\ corpus[c].segments = corpus0[c].segments
            /\ corpus[c].total_duration = corpus0[c].total_duration
            /\ corpus[c].utterances = corpus0[c].utterances

\* The keyword arguments a metric's extract needs besides the conversation
Required(metric) ==
    CASE metric \in {"speaking_time", "pauses"} -> {"total_duration"}
      [] metric = "speaker_rate" -> {"text_field"}
      [] OTHER -> {}

\* C8: every metric is invoked with exactly the keyword arguments it needs,
\* on either source, so that no invocation fails on its arguments.
C8_CallSuppliesRequiredArguments ==
    \A e \in Invocations :
        /\ e.kwargs = Required(e.metric)
        /\ e.status # "TypeError"

\* The rows of a frame without the working columns the metrics add
BaseRows(df, cols) ==
    [i \in 1..NRows(df) |-> [c \in cols |-> df.rows[i][c]]]

\* Every row of the frame is a row of the source frame
DrawnFrom(df, src) ==
    /\ src.cols \subseteq df.cols
    /\ Range(BaseRows(df, src.cols)) \subseteq Range(src.rows)

\* C9: the metrics of a conversation all run on the diarized segments when
\* segments are attached, and all on the utterance table otherwise.
C9_OneSourcePerConversation ==
    \A e \in Invocations :
        IF corpus0[e.conv].segments # None
        THEN /\ e.source = "diarization_segments"
             /\ DrawnFrom(e.frame, corpus0[e.conv].segments[1])
        ELSE /\ e.source = "utterances"
             /\ DrawnFrom(e.frame, corpus0[e.conv].utterances)

\* C9 witness: two metrics ran on the noise-filtered segments of a diarized
\* conversation of three speakers
C9_Witness ==
    /\ Transformed
    /\ \E c \in 1..Len(corpus) :
          /\ corpus0[c].segments # None
          /\ Cardinality(DistinctSpeakers(corpus0[c].segments[1])) > 2
          /\ Len(InvocationsOf(c)) >= 2
          /\ \A i \in 1..Len(InvocationsOf(c)) : InvocationsOf(c)[i].status = "ok"

\* The feature records transform attaches, per conversation, when the
\* given list is registered
FeaturesWith(registered) ==
    LET r == TransformLoop(1, corpus0, Some(registered), <<>>)
    IN  [c \in 1..Len(corpus0) |-> r.corpus[c].features]

\* C10: the features transform attaches are the same for every order of the
\* registered metrics, and each metric's values are those it gives when it
\* is the only metric registered.
C10_OrderIndependent ==
    (Transformed /\ metrics # None) =>
        /\ \A p \in Orderings(metrics[1]) :
              FeaturesWith(p) = [c \in 1..Len(corpus) |-> corpus[c].features]
        /\ \A c \in 1..Len(corpus) :
              corpus[c].features # None =>
                  \A m \in DOMAIN corpus[c].features[1] :
                      corpus[c].features[1][m] = FeaturesWith(<<m>>)[c][1][m]

\* C10 witness: pauses and backchannels, which both add a working column,
\* were registered together and a conversation got both results
C10_Witness ==
    /\ Transformed
    /\ metrics = Some(<<"backchannels", "pauses">>)
    /\ \E c \in 1..Len(corpus) :
          /\ corpus[c].features # None
          /\ {"pause", "backchannel"} \subseteq corpus[c].segments[1].cols
          /\ corpus[c].features[1]["pauses"] # EmptyDict

\* The metric keys of the per-speaker Series the six metrics return
SpeakerMetricKeys ==
    {"speaking_time", "turn_length_median", "turn_length_mean", "turn_length_cv",
     "turn_length_predictability", "avg_pause_pct", "speaker_rate_median",
     "speaker_rate_cv", "speaker_rate_predictability", "backchannels",
     "avg_response_time"}

\* The metric keys of the conversation-scoped values
ConversationMetricKeys == {"turn_length_adaptability", "speaker_rate_adaptability"}

\* The dicts the metric invocations of the last transform returned
ResultDicts == {e.result : e \in {o \in Invocations : o.status = "ok"}}

\* k is "{normalised speaker}_{metric key}" or "{metric key}"
IsFlatKey(k) ==
    \/ Len(k) = 1 /\ k[1] \in ConversationMetricKeys
    \/ Len(k) = 2 /\ k[2] \in SpeakerMetricKeys /\ k[1] = StrStrip(StrLower(k[1]))

\* C11: the feature record of a conversation is one flat mapping: each of
\* its keys is a conversation-scoped metric key (a key without a speaker
\* part), and the value under it is a number, not the dict a metric returned.
C11_FeatureRecordIsFlat ==
    Transformed =>
        \A c \in 1..Len(corpus) :
            corpus[c].features # None =>
                \A name \in DOMAIN corpus[c].features[1] :
                    /\ name \in ConversationMetricKeys
                    /\ corpus[c].features[1][name] \notin ResultDicts

\* C11 (inner dicts): every dict a metric returns is flat, its keys of the
\* two forms; the record nests these dicts under the metrics' names.
C11_ResultDictsAreFlat ==
    \A e \in Invocations : \A k \in DOMAIN e.result : IsFlatKey(k)

\* The value a result dict holds for speaker s under a metric key, as the
\* fraction <<numerator, denominator>>
Fraction(result, s, key) == <<result[SpeakerKey(s, key)][2], result[SpeakerKey(s, key)][3]>>

\* Every interval of the frame lies within the recording and ends no
\* earlier than it starts
WithinRecording(df, total_duration) ==
    \A i \in 1..NRows(df) :
        /\ 0 <= df.rows[i].start
        /\ df.rows[i].start <= df.rows[i]["end"]
        /\ df.rows[i]["end"] <= total_duration

\* C12: on a timeline of exactly two speakers whose intervals lie within the
\* recording, the two SpeakingTime percentages sum to at most 100.
C12_SpeakingTimeSumsToAtMost100 ==
    \A e \in Invocations :
        (/\ e.metric = "speaking_time"
         /\ e.status = "ok"
         /\ DistinctSpeakers(e.frame) = {A, B}
         /\ WithinRecording(e.frame, corpus0[e.conv].total_duration[1])) =>
            LET a == Fraction(e.result, A, "speaking_time")
                b == Fraction(e.result, B, "speaking_time")
            IN  a[1] * b[2] + b[1] * a[2] <= 100 * a[2] * b[2]

\* C13: on the timeline [(0,2,A),(2,3,B),(3,3.4,A),(4,6,B)] of a 6 s
\* recording, SpeakingTime gives 40 for A and 50 for B; Pauses records the
\* gaps 0, 0, 0.6 and none, and gives 5 for A (mean gap 0.3 s) and 0 for B.
C13_EndToEndScenario ==
    \A e \in Invocations :
        (/\ BaseRows(e.frame, SegmentColumns) = TurnsApart
         /\ corpus0[e.conv].total_duration = Some(60)) =>
            /\ e.metric = "speaking_time" =>
                 /\ e.status = "ok"
                 /\ e.result = (<< <<"a">>, "speaking_time" >> :> <<"rat", 40, 1>>)
                               @@ (<< <<"b">>, "speaking_time" >> :> <<"rat", 50, 1>>)
            /\ e.metric = "pauses" =>
                 /\ e.status = "ok"
                 /\ Column(e.after, "pause") = <<Some(0), Some(0), Some(6), None>>
                 /\ e.result = (<< <<"a">>, "avg_pause_pct" >> :> <<"rat", 5, 1>>)
                               @@ (<< <<"b">>, "avg_pause_pct" >> :> <<"rat", 0, 1>>)

\* C13 witness: speaking_time and pauses both ran on that timeline
C13_Witness ==
    /\ Transformed
    /\ metrics = Some(<<"speaking_time", "pauses">>)
    /\ corpus0[1].segments[1].rows = TurnsApart
    /\ corpus[1].features # None
    /\ DOMAIN corpus[1].features[1] = {"speaking_time", "pauses"}

\* The orchestrator's noise-speaker filter (transform, lines 82-83)
NoiseFilter(segments) ==
    IF NUnique(Column(segments, "speaker")) > 2
    THEN RemoveShortestSpeaker(segments) ELSE segments

\* C14: the timeline the metrics of a diarized conversation ran on is a
\* fixed point of the noise-speaker filter: the filter returns a timeline
\* of at most 2 speakers as it is, and filtering twice equals filtering once.
C14_NormalisationIdempotent ==
    \A e \in Invocations :
        e.source = "diarization_segments" =>
            LET stored == corpus0[e.conv].segments[1]
                once == DataFrame(SegmentColumns, BaseRows(e.frame, SegmentColumns))
            IN  /\ once = NoiseFilter(stored)
                /\ NUnique(Column(stored, "speaker")) <= 2 => once = stored
                /\ NoiseFilter(once) = once

\* The summed duration of the intervals of speaker s
SpokenBy(df, s) ==
    SumSeq([i \in 1..NRows(df) |-> IF df.rows[i].speaker = s THEN df.rows[i].duration ELSE 0])

\* The intervals of df other than those of speaker s, in their order
IntervalsExcept(df, s) == SelectSeq(df.rows, LAMBDA r : r.speaker # s)

\* C15: the metrics of a diarized conversation of k > 2 speakers run on the
\* stored intervals without those of exactly one speaker, whose summed
\* duration is at most every other speaker's; the other intervals are kept
\* unchanged in their order, so k - 1 speakers are left; a timeline of at
\* most 2 speakers is not filtered.
C15_RemovesOneShortestSpeakerOnce ==
    \A e \in Invocations :
        e.source = "diarization_segments" =>
            LET stored == corpus0[e.conv].segments[1]
                speakers == DistinctSpeakers(stored)
                kept == BaseRows(e.frame, SegmentColumns)
            IN  IF Cardinality(speakers) > 2
                THEN /\ \E s \in speakers :
                          /\ kept = IntervalsExcept(stored, s)
                          /\ \A t \in speakers : SpokenBy(stored, s) <= SpokenBy(stored, t)
                     /\ Cardinality(DistinctSpeakers(e.frame)) = Cardinality(speakers) - 1
                ELSE kept = stored.rows

\* C15 witness: a metric ran on the three speakers left of a conversation
\* of four, in which the speakers' summed durations differ
C15_Witness ==
    \E e \in Invocations :
        /\ e.source = "diarization_segments"
        /\ Cardinality(DistinctSpeakers(corpus0[e.conv].segments[1])) = 4
        /\ Cardinality(DistinctSpeakers(e.frame)) = 3
        /\ \E s, t \in DistinctSpeakers(corpus0[e.conv].segments[1]) :
               SpokenBy(corpus0[e.conv].segments[1], s) < SpokenBy(corpus0[e.conv].segments[1], t)

\* C16: Pauses takes each gap between an interval and its successor in
\* start-ascending order: whatever the order of the rows, its values are
\* those of the start-sorted timeline, and the interval with the latest
\* start gets no pause value.
C16_PausesInStartOrder ==
    \A e \in Invocations :
        (e.metric = "pauses" /\ e.status = "ok") =>
            /\ e.result =
                 PausesExtract(SortByStart(e.frame),
                               [total_duration |-> corpus0[e.conv].total_duration[1]]).result
            /\ \A i \in 1..NRows(e.after) :
                   (\A j \in 1..NRows(e.after) : e.after.rows[j].start < e.after.rows[i].start
                                                  \/ j = i)
                       => e.after.rows[i].pause = None

\* The rows of speaker s that Backchannels has flagged
BackchannelRows(df, s) ==
    {i \in 1..NRows(df) : df.rows[i].speaker = s /\ df.rows[i].backchannel}

\* The rows of speaker s
TurnRows(df, s) == {i \in 1..NRows(df) : df.rows[i].speaker = s}

\* value = 100 * count / turns, for a value held as a fraction
IsPercentage(value, count, turns) ==
    /\ value[1] = "rat"
    /\ value[2] * turns = 100 * count * value[3]

\* C17: on a timeline of two speakers, Backchannels gives each speaker 100
\* times the number of the speaker's flagged intervals over the number of
\* the other speaker's intervals.
C17_BackchannelsOverOtherTurns ==
    \A e \in Invocations :
        (e.metric = "backchannels" /\ e.status = "ok"
            /\ Cardinality(DistinctSpeakers(e.frame)) = 2) =>
            \A s, o \in DistinctSpeakers(e.frame) :
                s # o =>
                    IsPercentage(e.result[SpeakerKey(s, "backchannels")],
                                 Cardinality(BackchannelRows(e.after, s)),
                                 Cardinality(TurnRows(e.after, o)))

\* C17 witness: Backchannels ran on two speakers with different numbers of
\* turns, and the speaker with fewer turns has a flagged interval
C17_Witness ==
    \E e \in Invocations :
        /\ e.metric = "backchannels" /\ e.status = "ok"
        /\ Cardinality(DistinctSpeakers(e.frame)) = 2
        /\ \E s, o \in DistinctSpeakers(e.frame) :
               /\ Cardinality(TurnRows(e.after, s)) < Cardinality(TurnRows(e.after, o))
               /\ BackchannelRows(e.after, s) # {}

\* The rows of speaker s that have a following row
RowsWithSuccessor(df, s) == {i \in 1..(NRows(df) - 1) : df.rows[i].speaker = s}

\* The sum of the gaps after the rows of speaker s
GapSum(df, s) ==
    SumSeq([i \in 1..(NRows(df) - 1) |->
               IF df.rows[i].speaker = s THEN df.rows[i + 1].start - df.rows[i]["end"] ELSE 0])

\* The metric's key of speaker s is in the result exactly when a gap is
\* observed after one of the speaker's rows, and its value is the mean of
\* those gaps times scale / total
GapKeys(result, key, df, scale, total) ==
    \A s \in DistinctSpeakers(df) :
        IF RowsWithSuccessor(df, s) = {}
        THEN SpeakerKey(s, key) \notin DOMAIN result
        ELSE /\ SpeakerKey(s, key) \in DOMAIN result
             /\ result[SpeakerKey(s, key)][1] = "rat"
             /\ result[SpeakerKey(s, key)][2] * Cardinality(RowsWithSuccessor(df, s)) * total
                    = scale * GapSum(df, s) * result[SpeakerKey(s, key)][3]

\* C18: in the results of Pauses and ResponseTime a speaker with no gap
\* observation has no key, and every other speaker has a key with the
\* measured value.
C18_NoObservationNoKey ==
    \A e \in Invocations :
        /\ (e.metric = "pauses" /\ e.status = "ok") =>
               GapKeys(e.result, "avg_pause_pct", e.frame, 100,
                       corpus0[e.conv].total_duration[1])
        /\ (e.metric = "response_time" /\ e.status = "ok") =>
               GapKeys(e.result, "avg_response_time", SortByStart(e.frame), 1, 1)

\* C18 witness: Pauses and ResponseTime ran on a timeline in which B's only
\* interval is the last one; both results have A's key and not B's
C18_Witness ==
    /\ corpus0[1].segments # None
    /\ \A i \in 1..NRows(corpus0[1].segments[1]) :
           corpus0[1].segments[1].rows[i].speaker = B <=> i = NRows(corpus0[1].segments[1])
    /\ \E e \in Invocations :
           /\ e.metric = "pauses"
           /\ DOMAIN e.result = {SpeakerKey(A, "avg_pause_pct")}
    /\ \E e \in Invocations :
           /\ e.metric = "response_time"
           /\ DOMAIN e.result = {SpeakerKey(A, "avg_response_time")}

\* The number of names before the first one that is not a registered name
\* (all of them when every name is one)
KnownPrefix(names) ==
    CHOOSE k \in 0..Len(names) :
        /\ \A i \in 1..k : Resolvable(names[i])
        /\ k < Len(names) => ~Resolvable(names[k + 1])

\* The metrics transform has invoked, in order
InvokedMetrics == [i \in 1..Len(calls) |-> calls[i].metric]

\* C19: after any register_metrics call, whatever was registered before, the
\* registered list holds one metric per name that precedes the first
\* unrecognised name, in the order given and duplicates kept (all names when
\* the call returns normally), and a later transform runs that list.
C19_RegisterReplacesAndKeepsPrefix ==
    lastNames # None =>
        /\ metrics # None
        /\ Len(metrics[1]) = KnownPrefix(lastNames[1])
        /\ \A i \in 1..Len(metrics[1]) : MatchesKey(lastNames[1][i], Chars[metrics[1][i]])
        /\ Transformed =>
               /\ Len(InvokedMetrics) <= Len(metrics[1])
               /\ InvokedMetrics = SubSeq(metrics[1], 1, Len(InvokedMetrics))
               /\ raised = NoException => InvokedMetrics = metrics[1]

\* C19 witness: with two metrics registered, a call with a known name and
\* then "pause" left speaking_time alone registered, and transform ran it
C19_Witness ==
    /\ replaced = Some(<<"pauses", "pauses">>)
    /\ lastNames = Some(<<Chars.speaking_time, <<"p","a","u","s","e">> >>)
    /\ metrics = Some(<<"speaking_time">>)
    /\ Transformed
    /\ InvokedMetrics = <<"speaking_time">>

\* C20: the metrics of one extract call all see the same set of speakers:
\* no metric is computed on fewer speakers than a metric before it.
C20_SameSpeakersWithinExtract ==
    extractor.metrics # None =>
        \A i, j \in 1..Len(calls) :
            i < j => DistinctSpeakers(calls[j].frame) = DistinctSpeakers(calls[i].frame)

=============================================================================
